---- MODULE Spec2Model ----
(***************************************************************************)
(* Model of run() in dist/index.js: the LintAI action reads its inputs,    *)
(* reads the assertions config, evaluates every assertion against the      *)
(* output text, aggregates a percentage score and a pass decision, emits   *)
(* the outputs and marks the run failed or successful.                     *)
(*                                                                         *)
(* Strings are sequences of one-character strings.  A JavaScript value     *)
(* that may be undefined is a sequence of length at most one: <<>> is      *)
(* undefined (or NaN for the result of parseFloat) and <<v>> is the value  *)
(* v.  Weights, thresholds and max_chars are integers; with these small    *)
(* integer weights a percentage that falls on a half is computed exactly   *)
(* by the double arithmetic of the program and every other one is far      *)
(* from a half, so Math.round gives what exact arithmetic gives.           *)
(***************************************************************************)
EXTENDS Integers, Sequences, FiniteSets, TLC

VARIABLES inOutput, inThreshold, configFile,
          pc, output, threshold, assertions, results,
          score, failedCount, warningsCount, totalWeight, passed,
          outputs, failures

vars == <<inOutput, inThreshold, configFile,
          pc, output, threshold, assertions, results,
          score, failedCount, warningsCount, totalWeight, passed,
          outputs, failures>>

(***************************************************************************)
(* Bounds and program constants                                            *)
(***************************************************************************)
MaxAssertions == 2

DefaultThreshold == 70
DefaultWeight == 1
DefaultMaxChars == 1000

None == <<>>

(***************************************************************************)
(* Strings and numbers                                                     *)
(***************************************************************************)
Digits == <<"0", "1", "2", "3", "4", "5", "6", "7", "8", "9">>

IsDigit(c) == \E d \in 1..10 : Digits[d] = c

DigitVal(c) == (CHOOSE d \in 1..10 : Digits[d] = c) - 1

RECURSIVE NatToString(_)
NatToString(n) ==
  IF n < 10 THEN <<Digits[n + 1]>>
  ELSE NatToString(n \div 10) \o <<Digits[(n % 10) + 1]>>

\* Number.prototype.toString for an integer
NumToString(n) == IF n < 0 THEN <<"-">> \o NatToString(0 - n) ELSE NatToString(n)

\* Boolean.prototype.toString
BoolToString(b) == IF b THEN <<"t", "r", "u", "e">> ELSE <<"f", "a", "l", "s", "e">>

RECURSIVE ParseDigits(_, _, _)
ParseDigits(s, k, acc) ==
  IF k > Len(s) \/ ~IsDigit(s[k]) THEN acc
  ELSE ParseDigits(s, k + 1, 10 * acc + DigitVal(s[k]))

\* parseFloat on strings without a fraction or exponent part: an optional
\* sign, then the longest run of digits; NaN (<<>>) when there is no digit.
ParseFloat(s) ==
  LET signed == Len(s) > 0 /\ s[1] \in {"-", "+"}
      start  == IF signed THEN 2 ELSE 1
      mag    == ParseDigits(s, start, 0)
  IN  IF start > Len(s) \/ ~IsDigit(s[start]) THEN None
      ELSE IF signed /\ s[1] = "-" THEN <<0 - mag>> ELSE <<mag>>

\* x ?? d: only undefined and NaN give the default
NumOr_nullish(x, d) == IF x = None THEN d ELSE x[1]

\* x || d for x a number, NaN or undefined: 0, NaN and undefined are falsy
NumOr(x, d) == IF x = None \/ x = <<0>> THEN d ELSE x[1]

\* Math.floor(num / den)
MathRound_floor(num, den) == num \div den

\* Math.round(num / den) for den > 0: floor(num / den + 0.5)
MathRound(num, den) == (2 * num + den) \div (2 * den)

Lower(c) == CASE c = "A" -> "a" [] c = "B" -> "b" [] OTHER -> c

ToLowerCase(s) == [k \in 1..Len(s) |-> Lower(s[k])]

\* String.prototype.includes
Includes(hay, needle) ==
  \E k \in 0..(Len(hay) - Len(needle)) : \A j \in 1..Len(needle) : hay[k + j] = needle[j]

(***************************************************************************)
(* Regular expressions over letters and grouping parentheses               *)
(***************************************************************************)
RECURSIVE ParenDepth(_, _, _)
\* depth after scanning p from position k; -1 once a ")" closes nothing
ParenDepth(p, k, d) ==
  IF d < 0 THEN 0 - 1
  ELSE IF k > Len(p) THEN d
  ELSE ParenDepth(p, k + 1, CASE p[k] = "(" -> d + 1 [] p[k] = ")" -> d - 1 [] OTHER -> d)

\* new RegExp(p, 'i') throws a SyntaxError on unbalanced parentheses
RegExpThrows(p) == ParenDepth(p, 1, 0) # 0

\* new RegExp(p, 'i').test(s) for a valid p: groups only concatenate, so p
\* matches where its letters occur in s, compared without case
RegExpTest(p, s) ==
  Includes(ToLowerCase(s), ToLowerCase(SelectSeq(p, LAMBDA c : c \notin {"(", ")"})))

(***************************************************************************)
(* Inputs of the action                                                    *)
(***************************************************************************)
\* The 'output' input is held run-length encoded, a sequence of runs of one
\* character; Text gives the string itself.
Run(c, n) == [ch |-> c, n |-> n]

RECURSIVE Text(_)
Text(rs) ==
  IF rs = <<>> THEN <<>>
  ELSE [k \in 1..rs[1].n |-> rs[1].ch] \o Text(Tail(rs))

\* the empty output stands for an input that was not supplied
Outputs ==
  { <<>>,
    <<Run("A", 1), Run("b", 1)>>,
    <<Run("A", 1), Run("b", 2)>>,
    <<Run("x", DefaultMaxChars)>>,
    <<Run("x", DefaultMaxChars + 1)>> }

\* the 'pass-threshold' input; the empty one is the unspecified input
ThresholdInputs ==
  { <<>>, <<"a", "b", "c">>, <<"0">>, <<"5", "0", "%">>, <<"-", "5">> }

MkAssertion(t, mc, tx, pt, w) ==
  [type |-> t, max_chars |-> mc, text |-> tx, pattern |-> pt, weight |-> w]

\* one assertion of every rule kind, with params.max_chars, params.text and
\* params.pattern present or absent
RuleKinds(w) ==
     { MkAssertion("MAX_LENGTH", mc, None, None, w) : mc \in {None, <<0>>, <<2>>} }
  \cup { MkAssertion("CONTAINS_TEXT", None, tx, None, w) : tx \in {None, << <<"b">> >>} }
  \cup { MkAssertion("NO_PATTERN", None, None, pt, w) : pt \in {None, << <<"a">> >>, << <<"(">> >>} }
  \cup { MkAssertion("CUSTOM", None, None, None, w) }

\* the weights a config gives: omitted, zero, positive, negative
Weights == { None, <<0>>, <<1>>, <<7>>, <<0 - 1>> }

AssertionSpecs ==
  RuleKinds(<<1>>) \cup { MkAssertion("MAX_LENGTH", <<2>>, None, None, w) : w \in Weights }

AssertionLists == UNION { [1..n -> AssertionSpecs] : n \in 0..MaxAssertions }

\* the file at 'assertions-config': missing, not JSON, or a JSON object whose
\* assertions key is absent or holds a list
ConfigFiles ==
     { [kind |-> k, assertions |-> None] : k \in {"missing", "invalid", "json"} }
  \cup { [kind |-> "json", assertions |-> <<l>>] : l \in AssertionLists }

(***************************************************************************)
(* Evaluation of one assertion (the body of the for loop)                  *)
(***************************************************************************)
\* a string in a condition: undefined and "" are falsy
Truthy(s) == s # None /\ s[1] # <<>>

Weight(a) == NumOr(a.weight, DefaultWeight)

MaxChars(a) == NumOr(a.max_chars, DefaultMaxChars)

AssertionThrows(a, out) ==
  a.type = "NO_PATTERN" /\ Truthy(a.pattern) /\ RegExpThrows(a.pattern[1])

TooLong(a, out) == a.type = "MAX_LENGTH" /\ Len(out) > MaxChars(a)

MissingText(a, out) ==
  ~TooLong(a, out) /\ a.type = "CONTAINS_TEXT"
    /\ Truthy(a.text) /\ ~Includes(out, a.text[1])

ForbiddenPattern(a, out) ==
  ~TooLong(a, out) /\ a.type # "CONTAINS_TEXT" /\ a.type = "NO_PATTERN"
    /\ Truthy(a.pattern) /\ RegExpTest(a.pattern[1], out)

AssertionPassed(a, out) ==
  ~(TooLong(a, out) \/ MissingText(a, out) \/ ForbiddenPattern(a, out))

AssertionMessage(a, out) ==
  CASE TooLong(a, out) -> <<"Output too long: ">> \o NumToString(Len(out)) \o <<" chars">>
    [] MissingText(a, out) -> <<"Missing required text: \"">> \o a.text[1] \o <<"\"">>
    [] ForbiddenPattern(a, out) -> <<"Output contains forbidden pattern">>
    [] OTHER -> <<"Passed">>

EvalAssertion(a, out) ==
  [passed |-> AssertionPassed(a, out), message |-> AssertionMessage(a, out),
   weight |-> Weight(a)]

\* score = assertionPassed ? weight : 0
AddEarned_assign(sc, ok, w) == IF ok THEN w ELSE 0

\* score += assertionPassed ? weight : 0
AddEarned(sc, ok, w) == sc + (IF ok THEN w ELSE 0)

\* if (!assertionPassed) failedCount++
CountFailed(fc, ok) == IF ok THEN fc ELSE fc + 1

(***************************************************************************)
(* Aggregation                                                             *)
(***************************************************************************)
\* assertions.length
TotalWeight_count(specs) == Len(specs)

RECURSIVE TotalWeight(_)
\* assertions.reduce((sum, a) => sum + (a.weight || 1.0), 0)
TotalWeight(specs) ==
  IF specs = <<>> THEN 0
  ELSE TotalWeight(SubSeq(specs, 1, Len(specs) - 1))
         + NumOr(specs[Len(specs)].weight, DefaultWeight)

\* totalWeight > 0 ? Math.round((score / totalWeight) * 100) : 0
Percentage(sc, total) == IF total > 0 THEN MathRound(sc * 100, total) ELSE 0

\* score >= threshold
ComputePassed_scoreOnly(sc, th, fc) == sc >= th

\* score >= threshold && failedCount === 0
ComputePassed(sc, th, fc) == sc >= th /\ fc = 0

RECURSIVE EarnedWeight(_, _)
EarnedWeight(specs, out) ==
  IF specs = <<>> THEN 0
  ELSE AddEarned(EarnedWeight(SubSeq(specs, 1, Len(specs) - 1), out),
                 AssertionPassed(specs[Len(specs)], out), Weight(specs[Len(specs)]))

\* the score of a run over the assertion list specs, none of which throws
ScoreOf(specs, out) == Percentage(EarnedWeight(specs, out), TotalWeight(specs))

(***************************************************************************)
(* core.setOutput, core.setFailed and the catch block                      *)
(***************************************************************************)
SetOutput(outs, n, v) == Append(outs, [name |-> n, value |-> v])

\* a catch block that also reports a result
CatchOutputs_partial(outs) == SetOutput(outs, "passed", BoolToString(FALSE))

\* catch (error) { core.setFailed(error.message) }: no output is set
CatchOutputs(outs) == outs

\* if (score >= threshold) console.log(...) else core.setFailed(...)
ResultFailures_scoreOnly(fs, ok, sc, th) ==
  IF sc >= th THEN fs
  ELSE Append(fs, <<"Validation failed! Score: ">> \o NumToString(sc)
                    \o <<"%, Threshold: ">> \o NumToString(th) \o <<"%">>)

\* if (passed) console.log(...) else core.setFailed(...)
ResultFailures(fs, ok, sc, th) ==
  IF ok THEN fs
  ELSE Append(fs, <<"Validation failed! Score: ">> \o NumToString(sc)
                    \o <<"%, Threshold: ">> \o NumToString(th) \o <<"%">>)

(***************************************************************************)
(* run()                                                                   *)
(***************************************************************************)
Init ==
  /\ inOutput \in Outputs
  /\ inThreshold \in ThresholdInputs
  /\ configFile \in ConfigFiles
  /\ pc = "getInputs"
  /\ output = <<>>
  /\ threshold = 0
  /\ assertions = <<>>
  /\ results = <<>>
  /\ score = 0
  /\ failedCount = 0
  /\ warningsCount = 0
  /\ totalWeight = 0
  /\ passed = FALSE
  /\ outputs = <<>>
  /\ failures = <<>>

\* an exception inside the try block: the catch block marks the run failed
Throw(msg) ==
  /\ pc' = "aborted"
  /\ failures' = Append(failures, msg)
  /\ outputs' = CatchOutputs(outputs)

\* lines 9-13: a required input that is empty makes core.getInput throw
GetInputs ==
  /\ pc = "getInputs"
  /\ IF inOutput = <<>>
     THEN /\ Throw(<<"Input required and not supplied: output">>)
          /\ UNCHANGED <<output, threshold>>
     ELSE /\ output' = inOutput
          /\ threshold' = NumOr(ParseFloat(inThreshold), DefaultThreshold)
          /\ pc' = "readConfig"
          /\ UNCHANGED <<outputs, failures>>
  /\ UNCHANGED <<inOutput, inThreshold, configFile, assertions, results,
                 score, failedCount, warningsCount, totalWeight, passed>>

\* lines 16-33
ReadConfig ==
  /\ pc = "readConfig"
  /\ CASE configFile.kind = "missing" ->
            /\ failures' = Append(failures, <<"Assertions config file not found: ", "configPath">>)
            /\ pc' = "aborted"
            /\ UNCHANGED <<assertions, outputs>>
       [] configFile.kind = "invalid" ->
            /\ Throw(<<"Unexpected token in JSON">>)
            /\ UNCHANGED assertions
       [] OTHER ->
            /\ assertions' = IF configFile.assertions = None THEN <<>>
                             ELSE configFile.assertions[1]
            /\ pc' = "evaluate"
            /\ UNCHANGED <<outputs, failures>>
  /\ score' = 0
  /\ passed' = FALSE
  /\ failedCount' = 0
  /\ warningsCount' = 0
  /\ results' = <<>>
  /\ UNCHANGED <<inOutput, inThreshold, configFile, output, threshold, totalWeight>>

\* lines 34-66: one iteration of the loop over the assertions
EvaluateAssertion ==
  /\ pc = "evaluate"
  /\ Len(results) < Len(assertions)
  /\ LET a == assertions[Len(results) + 1]
         r == EvalAssertion(a, Text(output))
     IN  IF AssertionThrows(a, Text(output))
         THEN /\ Throw(<<"Invalid regular expression">>)
              /\ UNCHANGED <<results, failedCount, score>>
         ELSE /\ results' = Append(results, r)
              /\ failedCount' = CountFailed(failedCount, r.passed)
              /\ score' = AddEarned(score, r.passed, r.weight)
              /\ UNCHANGED <<pc, outputs, failures>>
  /\ UNCHANGED <<inOutput, inThreshold, configFile, output, threshold, assertions,
                 warningsCount, totalWeight, passed>>

\* lines 69-71
Aggregate ==
  /\ pc = "evaluate"
  /\ Len(results) = Len(assertions)
  /\ totalWeight' = TotalWeight(assertions)
  /\ score' = Percentage(score, totalWeight')
  /\ passed' = ComputePassed(score', threshold, failedCount)
  /\ pc' = "setOutputs"
  /\ UNCHANGED <<inOutput, inThreshold, configFile, output, threshold, assertions,
                 results, failedCount, warningsCount, outputs, failures>>

\* lines 74-77
SetOutputs ==
  /\ pc = "setOutputs"
  /\ outputs' = SetOutput(SetOutput(SetOutput(SetOutput(outputs,
                   "passed", BoolToString(passed)),
                   "score", NumToString(score)),
                   "failed-assertions", NumToString(failedCount)),
                   "warnings-count", NumToString(warningsCount))
  /\ pc' = "setResult"
  /\ UNCHANGED <<inOutput, inThreshold, configFile, output, threshold, assertions,
                 results, score, failedCount, warningsCount, totalWeight, passed,
                 failures>>

\* lines 87-91
SetResult ==
  /\ pc = "setResult"
  /\ failures' = ResultFailures(failures, passed, score, threshold)
  /\ pc' = "done"
  /\ UNCHANGED <<inOutput, inThreshold, configFile, output, threshold, assertions,
                 results, score, failedCount, warningsCount, totalWeight, passed,
                 outputs>>

Next ==
  \/ GetInputs
  \/ ReadConfig
  \/ EvaluateAssertion
  \/ Aggregate
  \/ SetOutputs
  \/ SetResult

Spec == Init /\ [][Next]_vars

(***************************************************************************)
(* Vocabulary of the properties                                            *)
(***************************************************************************)
Completed == pc = "done"

Emitted(n, v) == \E k \in 1..Len(outputs) : outputs[k] = [name |-> n, value |-> v]

NoOutput(n) == \A k \in 1..Len(outputs) : outputs[k].name # n

NonNegativeWeights ==
  \A k \in 1..Len(assertions) :
    assertions[k].weight = None \/ assertions[k].weight[1] >= 0

FailedResults == Cardinality({k \in 1..Len(results) : ~results[k].passed})

RECURSIVE SumResultWeights(_, _)
\* the sum of the weights of the result entries, all of them or the passed ones
SumResultWeights(rs, passedOnly) ==
  IF rs = <<>> THEN 0
  ELSE SumResultWeights(Tail(rs), passedOnly)
         + (IF passedOnly /\ ~rs[1].passed THEN 0 ELSE rs[1].weight)

\* the threshold the caller supplied: 70 only for an unspecified or invalid input
SuppliedThreshold ==
  IF ParseFloat(inThreshold) = None THEN DefaultThreshold ELSE ParseFloat(inThreshold)[1]

(***************************************************************************)
(* C1: a completed run reports passed = "true" exactly when the score is   *)
(* at least the threshold and no assertion result failed.                  *)
(***************************************************************************)
C1_PassedIsConjunction ==
  Completed =>
    /\ Emitted("passed", BoolToString(TRUE)) <=> (score >= threshold /\ FailedResults = 0)
    /\ Emitted("passed", BoolToString(FALSE)) <=> ~(score >= threshold /\ FailedResults = 0)
    /\ FailedResults >= 1 => ~Emitted("passed", BoolToString(TRUE))

\* a completed run whose score reaches the threshold although an assertion failed
C1_Witness ==
  Completed /\ score >= threshold /\ FailedResults >= 1 /\ Emitted("passed", BoolToString(FALSE))

(***************************************************************************)
(* C2: a completed run over an empty or absent assertion list reports      *)
(* score 0 and passed = (threshold <= 0) for the supplied threshold,       *)
(* a supplied 0 included.                                                  *)
(***************************************************************************)
C2_EmptyConfigClaim ==
  (Completed /\ assertions = <<>>) =>
    /\ score = 0
    /\ passed = (SuppliedThreshold <= 0)

(***************************************************************************)
(* C3: every result entry carries the configured weight when that is a     *)
(* non-negative number (0 included) and 1 when it is omitted, and the      *)
(* total weight is the sum of these.                                       *)
(***************************************************************************)
C3_SpecWeight(a) == IF a.weight = None THEN DefaultWeight ELSE a.weight[1]

C3_ConfiguredWeightClaim ==
  /\ \A k \in 1..Len(results) :
       (assertions[k].weight = None \/ assertions[k].weight[1] >= 0)
         => results[k].weight = C3_SpecWeight(assertions[k])
  /\ (Completed /\ NonNegativeWeights) =>
       totalWeight = SumResultWeights([k \in 1..Len(assertions) |->
                        [passed |-> TRUE, weight |-> C3_SpecWeight(assertions[k])]], FALSE)

(***************************************************************************)
(* C4: a MAX_LENGTH assertion passes exactly when the output is at most    *)
(* max_chars long, max_chars being params.max_chars when present (0        *)
(* included) and 1000 when absent; a failure carries the length message.   *)
(***************************************************************************)
C4_SpecMaxChars(a) == IF a.max_chars = None THEN DefaultMaxChars ELSE a.max_chars[1]

C4_MaxLengthClaim ==
  \A k \in 1..Len(results) :
    assertions[k].type = "MAX_LENGTH" =>
      /\ results[k].passed <=> Len(Text(output)) <= C4_SpecMaxChars(assertions[k])
      /\ ~results[k].passed =>
           results[k].message =
             <<"Output too long: ">> \o NumToString(Len(Text(output))) \o <<" chars">>

C6_ScoreInRange ==
  (Completed /\ NonNegativeWeights) =>
    /\ score \in 0..100
    /\ \E n \in 0..100 : Emitted("score", NumToString(n))

C6_Witness ==
  Completed /\ NonNegativeWeights /\ score > 0 /\ score < 100 /\ Len(assertions) = MaxAssertions

(***************************************************************************)
(* C7: with non-negative weights, the score of a config whose last         *)
(* assertion passes with weight > 0 is at least the score of the config    *)
(* without that last assertion on the same output.                         *)
(***************************************************************************)
C7_Appended ==
  /\ Completed
  /\ Len(assertions) >= 1
  /\ NonNegativeWeights
  /\ results[Len(results)].passed
  /\ assertions[Len(assertions)].weight # None
  /\ assertions[Len(assertions)].weight[1] > 0

C7_Monotone ==
  C7_Appended =>
    score >= ScoreOf(SubSeq(assertions, 1, Len(assertions) - 1), Text(output))

\* appending the passing assertion raises the score strictly, from below 100
C7_Witness ==
  /\ C7_Appended
  /\ Len(assertions) >= 2
  /\ score > ScoreOf(SubSeq(assertions, 1, Len(assertions) - 1), Text(output))
  /\ score < 100

(***************************************************************************)
(* C8: a run that hits a fatal condition (config file missing, config not  *)
(* JSON, an exception while evaluating an assertion at any position) is    *)
(* marked failed with a message and emits none of the outputs; no run      *)
(* with such a condition ever emits an output.                             *)
(***************************************************************************)
C8_FatalCondition ==
  \/ configFile.kind \in {"missing", "invalid"}
  \/ /\ configFile.kind = "json"
     /\ configFile.assertions # None
     /\ inOutput # <<>>
     /\ \E k \in 1..Len(configFile.assertions[1]) :
          AssertionThrows(configFile.assertions[1][k], Text(inOutput))

C8_NoPartialResult ==
  /\ pc = "aborted" =>
       /\ Len(failures) = 1
       /\ failures[1] # <<>>
       /\ NoOutput("passed") /\ NoOutput("score") /\ NoOutput("failed-assertions")
  /\ C8_FatalCondition =>
       /\ NoOutput("passed") /\ NoOutput("score") /\ NoOutput("failed-assertions")
       /\ pc \notin {"setOutputs", "setResult", "done"}
  /\ \A k \in 1..Len(results) : ~AssertionThrows(assertions[k], Text(output))

\* the exception comes after an earlier assertion was evaluated and failed
C8_Witness ==
  /\ pc = "aborted"
  /\ Len(results) >= 1
  /\ failedCount >= 1
  /\ AssertionThrows(assertions[Len(results) + 1], Text(output))

(***************************************************************************)
(* C9: a run that completes evaluation is marked failed exactly when the   *)
(* reported passed is false, at most once, and the outputs passed, score   *)
(* and failed-assertions carry the report's values before that mark.       *)
(***************************************************************************)
C9_Reported ==
  /\ Emitted("passed", BoolToString(passed))
  /\ Emitted("score", NumToString(score))
  /\ Emitted("failed-assertions", NumToString(FailedResults))

C9_MarkStep ==
  (pc # "done" /\ pc' = "done") =>
    /\ C9_Reported
    /\ failures = <<>>
    /\ outputs' = outputs
    /\ <<passed', score', failedCount'>> = <<passed, score, failedCount>>
    /\ Len(failures') = (IF passed THEN 0 ELSE 1)

C9_FailedIffNotPassed ==
  /\ [](Completed => /\ C9_Reported
                     /\ Len(failures) <= 1
                     /\ (failures # <<>>) <=> Emitted("passed", BoolToString(FALSE)))
  /\ [][C9_MarkStep]_vars

\* a completed run marked failed although its score reaches the threshold
C9_Witness ==
  Completed /\ Len(failures) = 1 /\ score >= threshold /\ ~passed

(***************************************************************************)
(* C10: with at least one assertion and non-negative or omitted weights, a *)
(* completed run that reports passed reports score 100, and for every      *)
(* threshold up to 100 passed is exactly "no assertion failed".            *)
(***************************************************************************)
C10_PassedMeansFullScore ==
  (Completed /\ Len(assertions) >= 1 /\ NonNegativeWeights) =>
    /\ passed => score = 100
    /\ threshold <= 100 => (passed <=> FailedResults = 0)
    /\ FailedResults = 0 => (score = 100 /\ totalWeight > 0)

\* every configured weight is 0 and the run still passes with score 100
C10_Witness ==
  /\ Completed
  /\ Len(assertions) >= 1
  /\ \A k \in 1..Len(assertions) : assertions[k].weight = <<0>>
  /\ passed
  /\ score = 100

====
